---- MODULE Spec2Model ----
(***************************************************************************)
(* Model of the exchange-monitor account fetch orchestration:              *)
(* AccountManager (accountManagerService.ts), the data fetcher             *)
(* (dataFetcherService.ts), the configuration (config.ts) and the routes   *)
(* that reach them (exchange.routes.ts).                                   *)
(*                                                                         *)
(* The program runs on one event loop.  A step of the model is one piece   *)
(* of synchronous code: a handler, or the continuation of an await.  A     *)
(* continuation that is ready to run (a resolved await) runs before any    *)
(* timer, request or network completion, and the clock does not advance    *)
(* while one is ready: see Runnable.                                       *)
(***************************************************************************)
EXTENDS Integers, Sequences, FiniteSets, TLC

VARIABLES
    config,          \* config.accounts: the configured accounts, in order
    env,             \* the environment of the run: clock, horizon, overlap, requests
    now,             \* Date.now()
    exchangeClients, \* accountName -> client handle
    protoClient,     \* the client that is the prototype of exchangeClients, or 0
    lastFetchTimes,  \* accountName -> time of the last successful fetch
    errorCounts,     \* accountName -> consecutive errors
    backoffTimes,    \* accountName -> backoff expiry
    cachedData,      \* the in-memory cache of dataFetcherService
    boot,            \* position of startDataFetcher
    passes,          \* the running executions of fetchAllAccountsData
    timer,           \* the setInterval timer
    regs,            \* POST /accounts requests awaiting client.initialize()
    clientSeq,       \* number of client objects constructed so far
    streak,          \* history: accountName -> failed fetches since its last success
    succeededAt,     \* history: accountName -> when its latest successful fetch completed
    fetched,         \* history: accountName -> the data its latest successful fetch returned
    initOk,          \* history: the names whose client.initialize() has returned
    bootLog,         \* history: the outcome of each initializeAccount call of startup
    copies,          \* the structures getCachedData has returned, held by callers
    last             \* the step taken last, with what it returned

vars == <<config, env, now, exchangeClients, protoClient, lastFetchTimes, errorCounts,
          backoffTimes, cachedData, boot, passes, timer, regs, clientSeq,
          streak, succeededAt, fetched, initOk, bootLog, copies, last>>

----------------------------------------------------------------------------
(* Program constants *)

MAX_CONSECUTIVE_ERRORS == 5
INITIAL_BACKOFF == 30000
FETCH_INTERVAL == 40000
HEALTH_WINDOW == 60000
MAX_BACKOFF_EXPONENT == 5

(* Bounds of the model *)

StartTime == 1000000    \* Date.now() when the process starts
Horizon == 6            \* clock steps explored in the runs with requests
PairHorizon == 5        \* clock steps explored in the two-account runs
FineHorizon == 26       \* clock steps explored in the fine-clock runs
DeepHorizon == 80       \* clock steps explored in the long single-account runs
OverlapHorizon == 7     \* clock steps explored in the overlapping runs
MaxPasses == 2          \* passes in progress at once
OverlapPasses == 5      \* passes in progress at once in the overlapping runs
MaxRegs == 1            \* POST /accounts requests in flight at once
MaxClients == 2         \* client objects constructed in one run
MaxSnap == 2            \* distinct snapshots a connector returns
MaxCopies == 2          \* structures returned by getCachedData that callers still hold
RegHorizon == 1         \* clock steps explored in the runs with repeated registrations
RegRegs == 2            \* POST /accounts requests in flight at once in those runs
RegClients == 3         \* client objects constructed in one of those runs
FaultHorizon == 2       \* clock steps explored in the runs with a failing metrics step
LiveHorizon == 1        \* clock steps explored in the runs with a connector that may hang
BootHorizon == 1        \* clock steps explored in the runs over the configured orders
CopyHorizon == 1        \* clock steps explored in the runs with cache reads
BackHorizon == 8        \* clock steps explored in the runs where every call returns
PromptHorizon == 50     \* clock steps explored in the runs with a prompt connector
NamesHorizon == 1       \* clock steps explored in the runs with inherited names

----------------------------------------------------------------------------
(* JavaScript objects used as maps.  A map of the model is a function     *)
(* whose domain is the set of the object's own keys.  The objects are      *)
(* created with {}, so a read m[k] of a key that is not an own key goes on *)
(* to Object.prototype: it finds the members every object inherits, and    *)
(* for "__proto__" the prototype itself.  A write m["__proto__"] = v       *)
(* creates no own key: it replaces the prototype when v is an object and   *)
(* does nothing when v is a number or a text.                              *)

EmptyMap == [k \in {} |-> 0]

\* the methods of Object.prototype
ObjectPrototypeMembers ==
    {"constructor", "hasOwnProperty", "isPrototypeOf", "propertyIsEnumerable",
     "toLocaleString", "toString", "valueOf", "__defineGetter__",
     "__defineSetter__", "__lookupGetter__", "__lookupSetter__"}

\* a key that a read finds on Object.prototype
Inherited(k) == k \in ObjectPrototypeMembers \cup {"__proto__"}

\* what an inherited member is as a text (String(m[k])): a native function,
\* or for "__proto__" the prototype object
MemberText(k) ==
    IF k = "__proto__" THEN "[object Object]"
    ELSE "function " \o (IF k = "constructor" THEN "Object" ELSE k)
                     \o "() { [native code] }"

\* Object.keys(m).includes(k)
Own(m, k) == k \in DOMAIN m

\* m[k] !== undefined: an own key or an inherited member
Has(m, k) == Own(m, k) \/ Inherited(k)

\* m[k] = v
Put(m, k, v) ==
    IF k = "__proto__" THEN m
    ELSE [x \in (DOMAIN m) \cup {k} |-> IF x = k THEN v ELSE m[x]]

\* m[k] || 0; an inherited member is truthy and stands as its text
GetOr0(m, k) ==
    IF Own(m, k) THEN m[k] ELSE IF Inherited(k) THEN MemberText(k) ELSE 0

\* typeof v === "number", for the values the maps hold: a number of the
\* model prints with fewer characters than any text that can be stored
IsNumber(v) == Len(ToString(v)) < Len(MemberText("__proto__"))

\* v + 1: addition for a number, concatenation for anything else
Plus1(v) == IF IsNumber(v) THEN v + 1 ELSE v \o "1"

\* the number a map holds for the name as an own key, 0 when it holds none
OwnOr0(m, k) == IF Own(m, k) THEN m[k] ELSE 0

\* a history variable of the model: the value noted for the name
Note(m, k, v) == [x \in (DOMAIN m) \cup {k} |-> IF x = k THEN v ELSE m[x]]

Min(a, b) == IF a < b THEN a ELSE b

RECURSIVE Pow2(_)
Pow2(n) == IF n <= 0 THEN 1 ELSE 2 * Pow2(n - 1)

SeqToSet(s) == {s[i] : i \in 1..Len(s)}

----------------------------------------------------------------------------
(* config.ts *)

Cfg(n, e, t) == [name |-> n, exchange |-> e, accountType |-> t]

\* config.accounts.map(account => account.name)
getAvailableAccounts == [i \in 1..Len(config) |-> config[i].name]

\* config.accounts.find(account => account.name === name) !== undefined
HasAccountConfig(name) == \E i \in 1..Len(config) : config[i].name = name

\* getAccountByName: config.accounts.find(...), the first entry of the name
getAccountConfig(name) ==
    config[CHOOSE i \in 1..Len(config) :
              /\ config[i].name = name
              /\ \A j \in 1..Len(config) : config[j].name = name => i <= j]

\* getAllAccountConfigs(): configs[account.name] = account for each entry in
\* turn, so a later entry of the same name overwrites an earlier one
getAllAccountConfigs ==
    [n \in SeqToSet(getAvailableAccounts) \ {"__proto__"} |->
        config[CHOOSE i \in 1..Len(config) :
                  /\ config[i].name = n
                  /\ \A j \in 1..Len(config) : config[j].name = n => j <= i]]

\* variant: any account type of a known exchange constructs a client
SupportedCombinationLoose(cfg) == cfg.exchange \in {"binance", "bybit"}

\* the switch of initializeAccount: does it construct a client?
SupportedCombination(cfg) ==
    \/ cfg.exchange = "binance" /\ cfg.accountType \in {"futures", "portfolioMargin"}
    \/ cfg.exchange = "bybit" /\ cfg.accountType = "unified"

----------------------------------------------------------------------------
(* accountManagerService.ts: fetchAccountData *)

\* the methods of a client (interface ExchangeClient), which a read of
\* exchangeClients finds once a client is the prototype of the map
ClientMembers == {"initialize", "getExchangeData"}

\* exchangeClients[accountName] is truthy: a client stored under the name,
\* or a member inherited from the prototype of the map
ClientFound(name) ==
    \/ Has(exchangeClients, name)
    \/ protoClient # 0 /\ name \in ClientMembers

\* the value found has a method getExchangeData: a client stored under the
\* name, or the client that is the prototype of the map
IsConnector(name) ==
    \/ Own(exchangeClients, name)
    \/ name = "__proto__" /\ protoClient # 0

\* if (!client)
NoClient(name) == ~ClientFound(name)

\* variant: the expiry is not compared with the clock
InBackoffModeSticky(name) == Own(backoffTimes, name) /\ backoffTimes[name] > 0

\* variant: the backoff check is missing
InBackoffModeIgnored(name) == FALSE

\* backoffTimes[accountName] > Date.now(); own values are numbers, and
\* undefined > n and an inherited member > n are false
InBackoffMode(name) == Own(backoffTimes, name) /\ backoffTimes[name] > now

\* variant: the threshold compared with > instead of >=
TooManyErrorsStrict(count) == count > MAX_CONSECUTIVE_ERRORS

\* errorCounts[accountName] >= MAX_CONSECUTIVE_ERRORS; a text that is not
\* the text of a number compares false
TooManyErrors(count) == IsNumber(count) /\ count >= MAX_CONSECUTIVE_ERRORS

\* variant: the delay starts at twice the initial backoff
BackoffTimeDoubled(count) ==
    2 * INITIAL_BACKOFF * Pow2(Min(count - MAX_CONSECUTIVE_ERRORS, MAX_BACKOFF_EXPONENT))

\* variant: the delay grows linearly instead of doubling
BackoffTimeLinear(count) ==
    INITIAL_BACKOFF * (Min(count - MAX_CONSECUTIVE_ERRORS, MAX_BACKOFF_EXPONENT) + 1)

\* variant: the exponent is not capped
BackoffTimeUncapped(count) == INITIAL_BACKOFF * Pow2(count - MAX_CONSECUTIVE_ERRORS)

\* INITIAL_BACKOFF * Math.pow(2, Math.min(count - MAX_CONSECUTIVE_ERRORS, 5))
BackoffTime(count) ==
    INITIAL_BACKOFF * Pow2(Min(count - MAX_CONSECUTIVE_ERRORS, MAX_BACKOFF_EXPONENT))

\* variant: the count is set to one, not incremented
ErrorCountRestarted(name) == 1

\* (errorCounts[accountName] || 0) + 1
NextErrorCount(name) == Plus1(GetOr0(errorCounts, name))

\* variant: the success path forgets to clear the backoff
BackoffKeptOnSuccess(name) == backoffTimes

\* backoffTimes[accountName] = 0 on success
BackoffAfterSuccess(name) == Put(backoffTimes, name, 0)

\* variant: one backoff for all accounts
BackoffAllAfterFailure(name) ==
    IF TooManyErrors(NextErrorCount(name))
    THEN [n \in (DOMAIN backoffTimes) \cup {name} |->
             now + BackoffTime(NextErrorCount(name))]
    ELSE backoffTimes

\* the backoff expiry the catch block leaves for the account
BackoffAfterFailure(name) ==
    IF TooManyErrors(NextErrorCount(name))
    THEN Put(backoffTimes, name, now + BackoffTime(NextErrorCount(name)))
    ELSE backoffTimes

----------------------------------------------------------------------------
(* accountManagerService.ts: getHealthStatus *)

\* variant: the window compared with <= instead of <
IsHealthyInclusive(lastFetch) == lastFetch > 0 /\ now - lastFetch <= HEALTH_WINDOW

\* lastFetch > 0 && timeSinceLastFetch < 60000
IsHealthy(lastFetch) == lastFetch > 0 /\ now - lastFetch < HEALTH_WINDOW

\* one record of getHealthStatus; lastFetchTimes[name] || 0 is a number
\* above 0 only when the name is an own key
HealthRecord(name) ==
    [healthy |-> Own(lastFetchTimes, name) /\ IsHealthy(lastFetchTimes[name]),
     inBackoff |-> InBackoffMode(name),
     errorCount |-> GetOr0(errorCounts, name)]

\* a call of initializeAccount for the name is waiting for client.initialize()
InitializationPending(name) ==
    \/ boot.phase = "awaitInit" /\ config[boot.idx].name = name
    \/ \E r \in 1..Len(regs) : regs[r].cfg.name = name

\* !!exchangeClients[accountName]
isAccountInitialized(name) == ClientFound(name)

\* Object.keys(exchangeClients)
getInitializedAccounts == DOMAIN exchangeClients

\* one record per key of exchangeClients
getHealthStatus == [n \in DOMAIN exchangeClients |-> HealthRecord(n)]

----------------------------------------------------------------------------
(* The state after the modules are loaded, before startDataFetcher runs *)

Snapshot(v) == [positions |-> v, accountSummary |-> v]

Snapshots == {Snapshot(v) : v \in 1..MaxSnap}

NoData == Snapshot(0)

\* a member that is missing from an object: undefined
Undefined == 0 - 1

\* an object a connector returns that lacks its accountSummary
Malformed == [positions |-> 1, accountSummary |-> Undefined]

\* an object a connector returns that lacks its positions
NoPositions == [positions |-> Undefined, accountSummary |-> 1]

\* what a step did: the operation, the account, the result, and for a fetch
\* the data returned and the counters the account had before
Step(op, name, result) ==
    [op |-> op, name |-> name, result |-> result, report |-> EmptyMap,
     data |-> NoData, errBefore |-> 0, backoffBefore |-> 0]

FetchStep(op, name, result, data) ==
    [Step(op, name, result) EXCEPT
        !.data = data,
        !.errBefore = OwnOr0(errorCounts, name),
        !.backoffBefore = OwnOr0(backoffTimes, name)]

InitState(cfg, e) ==
    /\ config = cfg
    /\ env = e
    /\ now = StartTime
    /\ exchangeClients = EmptyMap
    /\ protoClient = 0
    /\ lastFetchTimes = EmptyMap
    /\ errorCounts = EmptyMap
    /\ backoffTimes = EmptyMap
    /\ cachedData = [accounts |-> EmptyMap, currentAccount |-> "",
                     availableAccounts |-> <<>>, accountConfigs |-> EmptyMap]
    /\ boot = [phase |-> "init", idx |-> 1, client |-> 0]
    /\ passes = <<>>
    /\ timer = [armed |-> FALSE, next |-> 0]
    /\ regs = <<>>
    /\ clientSeq = 0
    /\ streak = EmptyMap
    /\ succeededAt = EmptyMap
    /\ fetched = EmptyMap
    /\ initOk = {}
    /\ bootLog = <<>>
    /\ copies = {}
    /\ last = Step("load", "", "")

\* one supported account and one whose combination is unsupported
Configured == <<Cfg("A", "binance", "futures"), Cfg("C", "binance", "unified")>>

\* two supported accounts and one whose combination is unsupported
TwoAccounts ==
    <<Cfg("A", "binance", "futures"), Cfg("B", "bybit", "unified"),
      Cfg("C", "binance", "unified")>>

OneAccount == <<Cfg("A", "binance", "portfolioMargin")>>

\* a body of POST /accounts; "" stands for a field that is missing or falsy
Body(n, e, t, key, secret) ==
    [name |-> n, exchange |-> e, accountType |-> t, apiKey |-> key,
     apiSecret |-> secret]

\* a new name with a supported and with unsupported combinations, and a
\* configured name
Bodies ==
    {Body("D", "binance", "futures", "key", "secret"),
     Body("D", "bybit", "futures", "key", "secret"),
     Body("D", "kraken", "spot", "key", "secret"),
     Body("A", "binance", "futures", "key", "secret")}

\* bodies that lack a required field
IncompleteBodies ==
    {Body("", "binance", "futures", "key", "secret"),
     Body("D", "binance", "futures", "key", "")}

\* names that no account has
OtherNames == {"D", "ghost"}

Env(step, steps, maxPasses) ==
    [step |-> step, limit |-> StartTime + steps * step, maxPasses |-> maxPasses,
     maxRegs |-> MaxRegs, maxClients |-> MaxClients, snapshots |-> Snapshots,
     prompt |-> FALSE, names |-> OtherNames, bodies |-> Bodies]

\* the whole program with every request, whole fetch intervals
Init == InitState(Configured, Env(FETCH_INTERVAL, Horizon, MaxPasses))

\* two fetched accounts, whole fetch intervals
InitPair == InitState(TwoAccounts, Env(FETCH_INTERVAL, PairHorizon, MaxPasses))

\* one account over a long time, whole fetch intervals, one pass at a time
InitDeep == InitState(OneAccount, Env(FETCH_INTERVAL, DeepHorizon, 1))

\* one account, a clock of a quarter of a fetch interval
InitFine == InitState(OneAccount, Env(FETCH_INTERVAL \div 4, FineHorizon, MaxPasses))

\* one account, many passes in progress at once
InitOverlap == InitState(OneAccount, Env(FETCH_INTERVAL, OverlapHorizon, OverlapPasses))

\* the two snapshots the connector returns in the runs with readers
CopySnapshots == {Snapshot(1), Snapshot(2)}

\* one account, with readers of the cache
InitCopy ==
    InitState(OneAccount,
              [Env(FETCH_INTERVAL, CopyHorizon, 1) EXCEPT !.snapshots = CopySnapshots])

\* the whole program, with room for two registrations of one name
InitReg ==
    InitState(Configured,
              [Env(FETCH_INTERVAL, RegHorizon, 1) EXCEPT
                  !.maxRegs = RegRegs,
                  !.maxClients = RegClients,
                  !.bodies = Bodies \cup IncompleteBodies])

\* a name configured twice, with different combinations
TwiceConfigured ==
    <<Cfg("A", "binance", "futures"), Cfg("C", "binance", "unified"),
      Cfg("A", "bybit", "unified")>>

\* the orders in which two supported accounts and an unsupported one can be
\* configured, a name configured twice, and no account at all
BootConfigs ==
    {<<TwoAccounts[i], TwoAccounts[j], TwoAccounts[k]>> :
        <<i, j, k>> \in {<<1, 2, 3>>, <<1, 3, 2>>, <<2, 1, 3>>, <<2, 3, 1>>,
                         <<3, 1, 2>>, <<3, 2, 1>>}}
        \cup {TwiceConfigured, <<>>}

\* any of these configurations, one pass at a time
InitBoot == \E cfg \in BootConfigs : InitState(cfg, Env(FETCH_INTERVAL, BootHorizon, 1))

\* two fetched accounts whose connector may never answer
InitLive == InitState(TwoAccounts, Env(FETCH_INTERVAL, LiveHorizon, MaxPasses))

\* one account whose connector may return an object without accountSummary
\* or without positions
InitFault ==
    InitState(OneAccount,
              [Env(FETCH_INTERVAL, FaultHorizon, 1) EXCEPT
                  !.snapshots = Snapshots \cup {Malformed, NoPositions}])

\* one account, a clock of 5000 ms, and a connector that answers the call of
\* a periodic pass less than 10000 ms after the pass started
InitPrompt ==
    InitState(OneAccount,
              [Env(FETCH_INTERVAL \div 8, PromptHorizon, 1) EXCEPT !.prompt = TRUE])

\* the snapshot the connectors return in the runs where every call returns
BackSnapshots == {Snapshot(1)}

\* two fetched accounts whose connectors always answer, one pass at a time
InitBack ==
    InitState(TwoAccounts,
              [Env(FETCH_INTERVAL, BackHorizon, 1) EXCEPT !.snapshots = BackSnapshots])

\* an account whose name is a member of Object.prototype, next to an
\* ordinary one
NamedAccounts ==
    <<Cfg("A", "binance", "futures"), Cfg("constructor", "binance", "futures")>>

\* bodies whose name is "__proto__", with a supported and an unsupported
\* combination
NamedBodies ==
    {Body("__proto__", "binance", "futures", "key", "secret"),
     Body("__proto__", "kraken", "spot", "key", "secret")}

\* the whole program with names that a plain object inherits
InitNames ==
    InitState(NamedAccounts,
              [Env(FETCH_INTERVAL, NamesHorizon, 1) EXCEPT
                  !.names = {"__proto__", "toString", "ghost"},
                  !.bodies = NamedBodies])

\* the names a request may carry
RequestNames == SeqToSet(getAvailableAccounts) \cup env.names

\* the bodies of POST /accounts
RequestConfigs == env.bodies

\* variant: requests are served between a fetch and the store of its data
RunnableAtStartupOnly == boot.phase \in {"init", "exited"}

\* a continuation is ready to run: it runs before any other event (and once
\* the process has exited nothing else runs)
Runnable ==
    \/ boot.phase \in {"init", "exited"}
    \/ \E p \in 1..Len(passes) : passes[p].phase \in {"call", "store", "end"}

RemoveAt(s, p) == [i \in 1..(Len(s) - 1) |-> IF i < p THEN s[i] ELSE s[i + 1]]

SetAt(s, p, v) == [s EXCEPT ![p] = v]

----------------------------------------------------------------------------
(* accountManagerService.ts: initializeAccount, after client.initialize() *)

\* variant: the tracking variables of every account are initialised again
StoreClientResetAll(name, client) ==
    /\ exchangeClients' = Put(exchangeClients, name, client)
    /\ protoClient' = IF name = "__proto__" THEN client ELSE protoClient
    /\ lastFetchTimes' = [n \in (DOMAIN lastFetchTimes) \cup {name} |-> 0]
    /\ errorCounts' = [n \in (DOMAIN errorCounts) \cup {name} |-> 0]
    /\ backoffTimes' = [n \in (DOMAIN backoffTimes) \cup {name} |-> 0]
    /\ streak' = Note(streak, name, 0)
    /\ initOk' = initOk \cup {name}
    /\ UNCHANGED <<succeededAt, fetched>>

\* exchangeClients[name] = client and the three tracking variables = 0; under
\* the name "__proto__" the client becomes the prototype of exchangeClients
\* and the three numbers are dropped
StoreClient(name, client) ==
    /\ exchangeClients' = Put(exchangeClients, name, client)
    /\ protoClient' = IF name = "__proto__" THEN client ELSE protoClient
    /\ lastFetchTimes' = Put(lastFetchTimes, name, 0)
    /\ errorCounts' = Put(errorCounts, name, 0)
    /\ backoffTimes' = Put(backoffTimes, name, 0)
    /\ streak' = Note(streak, name, 0)
    /\ initOk' = initOk \cup {name}
    /\ UNCHANGED <<succeededAt, fetched>>

FetchStateUnchanged ==
    UNCHANGED <<exchangeClients, protoClient, lastFetchTimes, errorCounts, backoffTimes,
                streak, succeededAt, fetched, initOk>>

----------------------------------------------------------------------------
(* dataFetcherService.ts: startDataFetcher *)

\* an execution of fetchAllAccountsData at its start: at the first account,
\* or with no account at its end; history: the accounts that had a client
\* then, and the accounts it has attempted
NewPass(kind) ==
    [kind |-> kind, idx |-> 1,
     phase |-> IF Len(getAvailableAccounts) > 0 THEN "call" ELSE "end",
     data |-> NoData, atStart |-> getInitializedAccounts, tried |-> {}]

\* variant: the first failure ends the loop of initializeAllAccounts
AbortAfterInitFailure(idx) == Len(config) + 1

\* the catch block of initializeAllAccounts: log, then the next account
AfterInitFailure(idx) == idx + 1

\* initializeAllAccounts: the call of initializeAccount for the next account
BootInitialize ==
    /\ boot.phase = "init"
    /\ boot.idx <= Len(config)
    /\ IF SupportedCombination(config[boot.idx])
       THEN /\ clientSeq' = clientSeq + 1
            /\ boot' = [boot EXCEPT !.phase = "awaitInit", !.client = clientSeq + 1]
            /\ last' = Step("initialize", config[boot.idx].name, "pending")
            /\ UNCHANGED bootLog
       ELSE /\ boot' = [boot EXCEPT !.idx = AfterInitFailure(@)]
            /\ last' = Step("initialize", config[boot.idx].name, "unsupported")
            /\ bootLog' = Append(bootLog, "unsupported")
            /\ UNCHANGED clientSeq
    /\ FetchStateUnchanged
    /\ UNCHANGED <<config, env, copies, now, cachedData, passes, timer, regs>>

\* client.initialize() returns or throws
BootInitialized(ok) ==
    /\ boot.phase = "awaitInit"
    /\ ~Runnable
    /\ IF ok
       THEN /\ StoreClient(config[boot.idx].name, boot.client)
            /\ boot' = [boot EXCEPT !.phase = "init", !.idx = @ + 1, !.client = 0]
            /\ last' = Step("initialized", config[boot.idx].name, "ok")
       ELSE /\ FetchStateUnchanged
            /\ boot' = [boot EXCEPT !.phase = "init", !.idx = AfterInitFailure(@),
                                    !.client = 0]
            /\ last' = Step("initialized", config[boot.idx].name, "failed")
    /\ bootLog' = Append(bootLog, IF ok THEN "ok" ELSE "failed")
    /\ UNCHANGED <<config, env, copies, now, cachedData, passes, timer, regs, clientSeq>>

\* after initializeAllAccounts: fill the cache structure, start the initial fetch
BootStartFetch ==
    /\ boot.phase = "init"
    /\ boot.idx > Len(config)
    /\ cachedData' =
          [cachedData EXCEPT
              !.availableAccounts = getAvailableAccounts,
              !.accountConfigs = getAllAccountConfigs,
              !.currentAccount = IF Len(getAvailableAccounts) > 0
                                 THEN getAvailableAccounts[1] ELSE @]
    /\ passes' = Append(passes, NewPass("initial"))
    /\ boot' = [boot EXCEPT !.phase = "fetch"]
    /\ last' = Step("startFetch", "", "")
    /\ FetchStateUnchanged
    /\ UNCHANGED <<config, env, bootLog, copies, now, timer, regs, clientSeq>>

----------------------------------------------------------------------------
(* dataFetcherService.ts: fetchAllAccountsData, one execution per pass;     *)
(* accountManagerService.ts: fetchAccountData                               *)

AccountAt(p) == getAvailableAccounts[passes[p].idx]

\* fetchAccountData up to its await: no client, or backoff, or the connector
\* call; when the value found is not a client, client.getExchangeData() throws
\* a TypeError inside the try block and the catch block runs at once
FetchCall(p) ==
    /\ passes[p].phase = "call"
    /\ LET name == AccountAt(p) IN
       IF NoClient(name)
       THEN /\ passes' = SetAt(passes, p, [passes[p] EXCEPT !.phase = "store", !.data = NoData])
            /\ last' = Step("noClient", name, "null")
            /\ FetchStateUnchanged
       ELSE IF InBackoffMode(name)
       THEN /\ passes' = SetAt(passes, p, [passes[p] EXCEPT !.phase = "store", !.data = NoData,
                                                            !.tried = @ \cup {name}])
            /\ last' = FetchStep("skip", name, "null", NoData)
            /\ FetchStateUnchanged
       ELSE IF ~IsConnector(name)
       THEN /\ passes' = SetAt(passes, p, [passes[p] EXCEPT !.phase = "store", !.data = NoData])
            /\ errorCounts' = Put(errorCounts, name, NextErrorCount(name))
            /\ backoffTimes' = BackoffAfterFailure(name)
            /\ last' = Step("typeError", name, "null")
            /\ UNCHANGED <<exchangeClients, protoClient, lastFetchTimes, streak,
                           succeededAt, fetched, initOk>>
       ELSE /\ passes' = SetAt(passes, p, [passes[p] EXCEPT !.phase = "await",
                                                            !.tried = @ \cup {name}])
            /\ last' = Step("invoke", name, "pending")
            /\ FetchStateUnchanged
    /\ UNCHANGED <<config, env, bootLog, copies, now, cachedData, boot, timer, regs, clientSeq>>

\* client.getExchangeData() returns data: the rest of the try block
FetchSucceeded(p, data) ==
    /\ passes[p].phase = "await"
    /\ ~Runnable
    /\ LET name == AccountAt(p) IN
       /\ lastFetchTimes' = Put(lastFetchTimes, name, now)
       /\ errorCounts' = Put(errorCounts, name, 0)
       /\ backoffTimes' = BackoffAfterSuccess(name)
       /\ streak' = Note(streak, name, 0)
       /\ succeededAt' = Note(succeededAt, name, now)
       /\ fetched' = Note(fetched, name, data)
       /\ last' = FetchStep("success", name, "data", data)
    /\ passes' = SetAt(passes, p, [passes[p] EXCEPT !.phase = "store", !.data = data])
    /\ UNCHANGED <<config, env, bootLog, copies, now, exchangeClients, protoClient, cachedData,
                   boot, timer, regs, clientSeq, initOk>>

\* client.getExchangeData() throws: the catch block
FetchFailed(p) ==
    /\ passes[p].phase = "await"
    /\ ~Runnable
    /\ LET name == AccountAt(p) IN
       /\ errorCounts' = Put(errorCounts, name, NextErrorCount(name))
       /\ backoffTimes' = BackoffAfterFailure(name)
       /\ streak' = Note(streak, name, OwnOr0(streak, name) + 1)
       /\ UNCHANGED <<succeededAt, fetched>>
       /\ last' = FetchStep("failure", name, "null", NoData)
    /\ passes' = SetAt(passes, p, [passes[p] EXCEPT !.phase = "store", !.data = NoData])
    /\ UNCHANGED <<config, env, bootLog, copies, now, exchangeClients, protoClient,
                   lastFetchTimes, cachedData, boot, timer, regs, clientSeq, initOk>>

\* variant: a fetch that returns no data clears the account's entry
CacheClearedWithoutData(name, data) ==
    IF data # NoData
    THEN [cachedData EXCEPT !.accounts = Put(@, name, data)]
    ELSE [cachedData EXCEPT !.accounts = [n \in (DOMAIN @) \ {name} |-> @[n]]]

\* variant: the data is not written to the cache
CacheNotWritten(name, data) == cachedData

\* if (data) { cachedData.accounts[accountName] = data; const config =
\* getAccountConfig(accountName); if (config) cachedData.accountConfigs[...] =
\* config; }
CacheAfterStore(name, data) ==
    IF data # NoData
    THEN [cachedData EXCEPT
            !.accounts = Put(@, name, data),
            !.accountConfigs = IF HasAccountConfig(name)
                               THEN Put(@, name, getAccountConfig(name)) ELSE @]
    ELSE cachedData

\* logAccountMetrics(data) throws a TypeError when it reads a member of the
\* accountSummary of an entry that has none, or the length of the positions
\* of an entry that has none
MetricsThrows(data) ==
    \E n \in DOMAIN data.accounts :
        \/ data.accounts[n].accountSummary = Undefined
        \/ data.accounts[n].positions = Undefined

\* a rejected promise that nobody handles: the process goes on with a
\* warning or exits, by the version and the flags of the runtime
UnhandledRejectionExits == BOOLEAN

\* variant: the first periodic pass is due at once
SetIntervalImmediate == [armed |-> TRUE, next |-> now]

\* setInterval(callback, FETCH_INTERVAL): the first call is due one interval
\* from now
SetInterval == [armed |-> TRUE, next |-> now + FETCH_INTERVAL]

\* the continuation of the loop body after fetchAccountData returned, then
\* the next iteration; after the last account, or at once when there is no
\* account, the pass ends and
\* logAccountMetrics runs; after the initial pass startDataFetcher arms the
\* timer, unless logAccountMetrics threw
PassContinue(p) ==
    /\ passes[p].phase \in {"store", "end"}
    /\ cachedData' = IF passes[p].phase = "store"
                     THEN CacheAfterStore(AccountAt(p), passes[p].data)
                     ELSE cachedData
    /\ IF passes[p].idx < Len(getAvailableAccounts)
       THEN /\ passes' = SetAt(passes, p, [passes[p] EXCEPT !.idx = @ + 1, !.phase = "call",
                                                            !.data = NoData])
            /\ UNCHANGED <<boot, timer>>
       ELSE IF ~MetricsThrows(cachedData')
       THEN /\ passes' = RemoveAt(passes, p)
            /\ IF passes[p].kind = "initial"
               THEN /\ timer' = SetInterval
                    /\ boot' = [boot EXCEPT !.phase = "ready"]
               ELSE UNCHANGED <<boot, timer>>
       ELSE IF passes[p].kind = "initial"
       THEN /\ passes' = RemoveAt(passes, p)
            /\ boot' = [boot EXCEPT !.phase = "failed"]
            /\ UNCHANGED timer
       ELSE \E exits \in UnhandledRejectionExits :
               IF exits
               THEN /\ passes' = <<>>
                    /\ boot' = [boot EXCEPT !.phase = "exited"]
                    /\ timer' = [timer EXCEPT !.armed = FALSE]
               ELSE /\ passes' = RemoveAt(passes, p)
                    /\ UNCHANGED <<boot, timer>>
    /\ last' = FetchStep(IF passes[p].data # NoData THEN "store" ELSE "continue",
                         IF passes[p].phase = "store" THEN AccountAt(p) ELSE "",
                         IF passes[p].idx < Len(getAvailableAccounts) THEN "next"
                         ELSE IF MetricsThrows(cachedData') THEN "passFailed"
                         ELSE "passEnd",
                         passes[p].data)
    /\ FetchStateUnchanged
    /\ UNCHANGED <<config, env, bootLog, copies, now, regs, clientSeq>>

\* the setInterval callback: a new pass every FETCH_INTERVAL
TimerFire ==
    /\ timer.armed
    /\ ~Runnable
    /\ now = timer.next
    /\ Len(passes) < env.maxPasses
    /\ passes' = Append(passes, NewPass("periodic"))
    /\ timer' = [timer EXCEPT !.next = @ + FETCH_INTERVAL]
    /\ last' = Step("timer", "", "")
    /\ FetchStateUnchanged
    /\ UNCHANGED <<config, env, bootLog, copies, now, cachedData, boot, regs, clientSeq>>

\* a connector call is waiting for its answer
CallPending == \E p \in 1..Len(passes) : passes[p].phase = "await"

\* the time the latest periodic pass started
LatestPassStart == timer.next - FETCH_INTERVAL

\* the clock advances; a due timer fires first; with a prompt connector a
\* call of a periodic pass is not pending FETCH_INTERVAL - INITIAL_BACKOFF
\* after the pass started
Advance ==
    /\ ~Runnable
    /\ env.prompt /\ CallPending /\ timer.armed =>
          now + env.step - LatestPassStart < FETCH_INTERVAL - INITIAL_BACKOFF
    /\ now + env.step <= env.limit
    /\ timer.armed => now + env.step <= timer.next
    /\ now' = now + env.step
    /\ last' = Step("clock", "", "")
    /\ FetchStateUnchanged
    /\ UNCHANGED <<config, env, bootLog, copies, cachedData, boot, passes, timer, regs, clientSeq>>

----------------------------------------------------------------------------
(* The operations the routes call *)

\* variant: the names that have a client are accepted
IsInitializedAccount(name) == ClientFound(name)

\* cachedData.availableAccounts.includes(accountName)
IsAvailableAccount(name) == name \in SeqToSet(cachedData.availableAccounts)

\* dataFetcherService.ts: setCurrentAccount
SetCurrentAccount(name) ==
    /\ ~Runnable
    /\ IF IsAvailableAccount(name)
       THEN /\ cachedData' = [cachedData EXCEPT !.currentAccount = name]
            /\ last' = Step("setCurrent", name, "ok")
       ELSE /\ UNCHANGED cachedData
            /\ last' = Step("setCurrent", name, "Invalid account")
    /\ FetchStateUnchanged
    /\ UNCHANGED <<config, env, bootLog, copies, now, boot, passes, timer, regs, clientSeq>>

\* variant: a report acknowledges the errors it shows
ErrorCountsAcknowledged == [n \in DOMAIN errorCounts |-> 0]

\* getHealthStatus reads errorCounts[accountName] || 0 and writes nothing
ErrorCountsAfterHealth == errorCounts

\* dataFetcherService.ts: getHealthStatus
GetHealth ==
    /\ ~Runnable
    /\ last' = [Step("health", "", "ok") EXCEPT !.report = getHealthStatus]
    /\ errorCounts' = ErrorCountsAfterHealth
    /\ UNCHANGED <<exchangeClients, protoClient, lastFetchTimes, backoffTimes, streak,
                   succeededAt, fetched, initOk>>
    /\ UNCHANGED <<config, env, bootLog, copies, now, cachedData, boot, passes, timer, regs, clientSeq>>

----------------------------------------------------------------------------
(* dataFetcherService.ts: getCachedData, and what its callers may do with   *)
(* the structure they receive                                              *)

\* JSON.parse(JSON.stringify(x)) of the cache: every object and array of the
\* result is built anew from the text, member by member
JsonCopy(x) ==
    [accounts |->
         [n \in DOMAIN x.accounts |->
             [positions |-> x.accounts[n].positions,
              accountSummary |-> x.accounts[n].accountSummary]],
     currentAccount |-> x.currentAccount,
     availableAccounts |->
         [i \in 1..Len(x.availableAccounts) |-> x.availableAccounts[i]],
     accountConfigs |->
         [n \in DOMAIN x.accountConfigs |->
             Cfg(x.accountConfigs[n].name, x.accountConfigs[n].exchange,
                 x.accountConfigs[n].accountType)]]

\* variant: a shallow copy, { ...cachedData }, shares the objects it refers to
ShallowCopyShares == {"accounts", "availableAccounts"}

\* the parts of the result that are the same object as a part of the cache
JsonCopyShares == {}

\* data.lastUpdate = new Date().toISOString()
WithLastUpdate(d) ==
    [accounts |-> d.accounts, currentAccount |-> d.currentAccount,
     availableAccounts |-> d.availableAccounts, accountConfigs |-> d.accountConfigs,
     lastUpdate |-> now]

\* the structure a caller receives
getCachedData ==
    [data |-> WithLastUpdate(JsonCopy(cachedData)), shares |-> JsonCopyShares,
     mutated |-> FALSE]

\* what a caller may write into a structure
Mutations == {"delete", "positions", "summary", "current", "available"}

\* the part of the structure a write goes to
PartOf(m) ==
    CASE m \in {"delete", "positions", "summary"} -> "accounts"
      [] m = "current" -> "currentAccount"
      [] m = "available" -> "availableAccounts"

\* the write itself, on the structure d
Mutate(d, m, name) ==
    CASE m = "delete" ->
            [d EXCEPT !.accounts = [n \in (DOMAIN @) \ {name} |-> @[n]]]
      [] m = "positions" ->
            [d EXCEPT !.accounts =
                IF Own(@, name) THEN [@ EXCEPT ![name].positions = 0] ELSE @]
      [] m = "summary" ->
            [d EXCEPT !.accounts =
                IF Own(@, name) THEN [@ EXCEPT ![name].accountSummary = 0] ELSE @]
      [] m = "current" -> [d EXCEPT !.currentAccount = "ghost"]
      [] m = "available" -> [d EXCEPT !.availableAccounts = Append(@, "ghost")]

\* GET /data and the other readers: getCachedData()
GetCachedData ==
    /\ ~Runnable
    /\ Cardinality(copies) < MaxCopies
    /\ copies' = copies \cup {getCachedData}
    /\ last' = Step("getData", "", "ok")
    /\ FetchStateUnchanged
    /\ UNCHANGED <<config, env, bootLog, now, cachedData, boot, passes, timer, regs,
                   clientSeq>>

\* a caller writes into the structure it holds; a part that is shared with
\* the cache is written in the cache as well
MutateCopy(c, m, name) ==
    /\ ~Runnable
    /\ ~c.mutated
    /\ copies' = (copies \ {c}) \cup {[c EXCEPT !.data = Mutate(@, m, name),
                                                 !.mutated = TRUE]}
    /\ cachedData' = IF PartOf(m) \in c.shares
                     THEN Mutate(cachedData, m, name) ELSE cachedData
    /\ last' = Step("mutate", name, m)
    /\ FetchStateUnchanged
    /\ UNCHANGED <<config, env, bootLog, now, boot, passes, timer, regs, clientSeq>>

\* a caller is done with the structure it holds
ReleaseCopy(c) ==
    /\ ~Runnable
    /\ copies' = copies \ {c}
    /\ last' = Step("release", "", "")
    /\ FetchStateUnchanged
    /\ UNCHANGED <<config, env, bootLog, now, cachedData, boot, passes, timer, regs,
                   clientSeq>>

\* GET /data: res.json(getCachedData()), the structure is sent and dropped
GetData ==
    /\ ~Runnable
    /\ last' = [Step("data", "", "ok") EXCEPT !.report = getCachedData.data.accounts]
    /\ FetchStateUnchanged
    /\ UNCHANGED <<config, env, bootLog, copies, now, cachedData, boot, passes, timer, regs,
                   clientSeq>>

\* if (!name || !exchange || !accountType || !apiKey || !apiSecret)
MissingFields(body) ==
    \/ body.name = "" \/ body.exchange = "" \/ body.accountType = ""
    \/ body.apiKey = "" \/ body.apiSecret = ""

\* POST /accounts: the handler up to client.initialize()
RegisterAccount(body) ==
    /\ ~Runnable
    /\ Len(regs) < env.maxRegs
    /\ LET cfg == Cfg(body.name, body.exchange, body.accountType) IN
       IF MissingFields(body)
       THEN /\ last' = Step("register", cfg.name, "missing")
            /\ UNCHANGED <<regs, clientSeq>>
       ELSE IF HasAccountConfig(cfg.name)
       THEN /\ last' = Step("register", cfg.name, "exists")
            /\ UNCHANGED <<regs, clientSeq>>
       ELSE IF ~SupportedCombination(cfg)
       THEN /\ last' = Step("register", cfg.name, "unsupported")
            /\ UNCHANGED <<regs, clientSeq>>
       ELSE /\ clientSeq < env.maxClients
            /\ clientSeq' = clientSeq + 1
            /\ regs' = Append(regs, [cfg |-> cfg, client |-> clientSeq + 1])
            /\ last' = Step("register", cfg.name, "pending")
    /\ FetchStateUnchanged
    /\ UNCHANGED <<config, env, bootLog, copies, now, cachedData, boot, passes, timer>>

\* POST /accounts: client.initialize() returns or throws
RegisterInitialized(r, ok) ==
    /\ ~Runnable
    /\ IF ok
       THEN /\ StoreClient(regs[r].cfg.name, regs[r].client)
            /\ last' = Step("registered", regs[r].cfg.name, "ok")
       ELSE /\ FetchStateUnchanged
            /\ last' = Step("registered", regs[r].cfg.name, "failed")
    /\ regs' = RemoveAt(regs, r)
    /\ UNCHANGED <<config, env, bootLog, copies, now, cachedData, boot, passes, timer, clientSeq>>

----------------------------------------------------------------------------

\* startup, the passes, the timer and the clock
NextPass ==
    \/ BootInitialize
    \/ \E ok \in BOOLEAN : BootInitialized(ok)
    \/ BootStartFetch
    \/ \E p \in 1..Len(passes) : FetchCall(p)
    \/ \E p \in 1..Len(passes) : \E d \in env.snapshots : FetchSucceeded(p, d)
    \/ \E p \in 1..Len(passes) : FetchFailed(p)
    \/ \E p \in 1..Len(passes) : PassContinue(p)
    \/ TimerFire
    \/ Advance

\* the fetcher and the health query
NextFetch ==
    \/ NextPass
    \/ GetHealth

Next ==
    \/ NextFetch
    \/ \E n \in RequestNames : SetCurrentAccount(n)
    \/ \E c \in RequestConfigs : RegisterAccount(c)
    \/ \E r \in 1..Len(regs) : \E ok \in BOOLEAN : RegisterInitialized(r, ok)

\* the fetcher and the readers of the cache
NextCopy ==
    \/ NextPass
    \/ GetCachedData
    \/ \E c \in copies : \E m \in Mutations :
          \E n \in SeqToSet(getAvailableAccounts) : MutateCopy(c, m, n)
    \/ \E c \in copies : ReleaseCopy(c)

\* every operation: the fetcher, the requests and the cache read of GET /data
NextOps ==
    \/ Next
    \/ GetData

Spec == Init /\ [][Next]_vars

SpecOps == InitReg /\ [][NextOps]_vars

SpecReg == InitReg /\ [][Next]_vars

SpecBoot == InitBoot /\ [][NextFetch]_vars

\* what the event loop guarantees: a continuation that is ready runs, a due
\* timer fires, the clock goes on, and client.initialize() comes back; a
\* call of client.getExchangeData() may stay pending for ever
Scheduling ==
    /\ WF_vars(BootInitialize)
    /\ WF_vars(\E ok \in BOOLEAN : BootInitialized(ok))
    /\ WF_vars(BootStartFetch)
    /\ WF_vars(\E p \in 1..Len(passes) : FetchCall(p))
    /\ WF_vars(\E p \in 1..Len(passes) : PassContinue(p))
    /\ WF_vars(TimerFire)
    /\ WF_vars(Advance)

SpecLive == InitLive /\ [][NextFetch]_vars /\ Scheduling

\* every call of client.getExchangeData() returns or throws in the end
CallsReturn ==
    WF_vars(\E p \in 1..Len(passes) :
               \/ \E d \in env.snapshots : FetchSucceeded(p, d)
               \/ FetchFailed(p))

SpecBack == InitBack /\ [][NextFetch]_vars /\ Scheduling /\ CallsReturn

SpecFault == InitFault /\ [][NextFetch]_vars

SpecCopy == InitCopy /\ [][NextCopy]_vars

SpecPrompt == InitPrompt /\ [][NextFetch]_vars

SpecPair == InitPair /\ [][NextFetch]_vars

SpecDeep == InitDeep /\ [][NextFetch]_vars

SpecFine == InitFine /\ [][NextFetch]_vars

SpecOverlap == InitOverlap /\ [][NextFetch]_vars

SpecNames == InitNames /\ [][Next]_vars

----------------------------------------------------------------------------
(* Properties *)

\* the account whose fetch has just completed with a failure
JustFailed(a) == last.op = "failure" /\ last.name = a

\* C1: after 1 to 4 consecutive failures of an account its error count is
\* the number of failures and its backoffUntil is 0; when the 5th consecutive
\* failure completes, at time t5, backoffUntil = t5 + 30000.
C1_BackoffAtThreshold ==
    \A a \in DOMAIN streak :
        /\ streak[a] \in 1..4 => errorCounts[a] = streak[a] /\ backoffTimes[a] = 0
        /\ JustFailed(a) /\ streak[a] = 5 =>
              errorCounts[a] = 5 /\ backoffTimes[a] = now + 30000

C1_Witness ==
    /\ JustFailed("A") /\ streak["A"] = 5 /\ backoffTimes["A"] = now + 30000
    /\ last.errBefore = 4 /\ last.backoffBefore = 0

\* the delay the claims state for the k-th consecutive failure, 5 <= k <= 10
DoubledDelay(k) ==
    CASE k = 5 -> 30000 [] k = 6 -> 60000 [] k = 7 -> 120000
      [] k = 8 -> 240000 [] k = 9 -> 480000 [] k = 10 -> 960000

\* C2: when the k-th consecutive failure of an account completes, at time
\* tk, 5 <= k <= 10, backoffUntil = tk + 30000 * 2^(k-5), whatever it was.
C2_BackoffDoubles ==
    \A a \in DOMAIN streak :
        JustFailed(a) /\ streak[a] \in 5..10 =>
            backoffTimes[a] = now + DoubledDelay(streak[a])

C2_Witness ==
    /\ JustFailed("A") /\ streak["A"] = 7 /\ backoffTimes["A"] = now + 120000
    /\ last.backoffBefore > 0 /\ last.backoffBefore <= now

\* C3: from the 10th consecutive failure on the delay is 960000 ms, the
\* 11th included, and no failure sets backoffUntil later than 960000 ms
\* after its own time.
C3_BackoffCapped ==
    \A a \in DOMAIN streak :
        JustFailed(a) =>
            /\ streak[a] >= 10 => backoffTimes[a] = now + 960000
            /\ backoffTimes[a] <= now + 960000

C3_Witness ==
    /\ JustFailed("A") /\ streak["A"] = 12 /\ backoffTimes["A"] = now + 960000

\* C4: when a fetch of an account succeeds, whatever its error count and
\* backoffUntil were, its consecutiveErrorCount and backoffUntil are 0 and its
\* lastFetchTimestamp is the current time, and the continuation of the pass
\* stores the returned snapshot in the cache under the account's name.
C4_SuccessResets ==
    /\ last.op = "success" =>
          /\ errorCounts[last.name] = 0
          /\ backoffTimes[last.name] = 0
          /\ lastFetchTimes[last.name] = now
          /\ last.data \in Snapshots
          /\ \E p \in 1..Len(passes) :
                /\ passes[p].phase = "store"
                /\ AccountAt(p) = last.name
                /\ passes[p].data = last.data
    /\ last.op = "store" =>
          /\ errorCounts[last.name] = 0
          /\ backoffTimes[last.name] = 0
          /\ lastFetchTimes[last.name] = now
          /\ last.data \in Snapshots
          /\ Own(cachedData.accounts, last.name)
          /\ cachedData.accounts[last.name] = last.data

\* a success that completes while the backoff set by later-started fetches
\* of the same account is active, over a stale cache entry
C4_Witness ==
    /\ last.op = "success"
    /\ last.errBefore >= 5
    /\ last.backoffBefore > now
    /\ Own(cachedData.accounts, last.name)
    /\ cachedData.accounts[last.name] # last.data
    /\ backoffTimes[last.name] = 0

\* C5: when a pass reaches an account whose backoffUntil > now, the connector
\* is not invoked (the fetch returns no data at once), and neither that step
\* nor the continuation of the pass changes the fetch state or the cache.
C5_BackoffSkips ==
    [][\A p \in 1..Len(passes) :
          /\ ( /\ passes[p].phase = "call"
               /\ OwnOr0(backoffTimes, AccountAt(p)) > now )
             => /\ passes' = SetAt(passes, p, [passes[p] EXCEPT
                                                  !.phase = "store",
                                                  !.data = NoData,
                                                  !.tried = @ \cup {AccountAt(p)}])
                /\ last'.op = "skip"
                /\ UNCHANGED <<exchangeClients, lastFetchTimes, errorCounts,
                               backoffTimes, cachedData>>
          /\ ( /\ passes[p].phase = "store"
               /\ last.op = "skip" )
             => UNCHANGED <<exchangeClients, lastFetchTimes, errorCounts,
                            backoffTimes, cachedData>>
      ]_vars

\* a pass has just met A in backoff, after at least five failures in a row
\* and with an entry of an earlier success in the cache: the fetch returned
\* no data and the pass is about to continue
C5_Witness ==
    /\ last.op = "skip" /\ last.name = "A" /\ last.result = "null"
    /\ Own(backoffTimes, "A") /\ backoffTimes["A"] > now
    /\ last.backoffBefore = backoffTimes["A"]
    /\ Own(errorCounts, "A") /\ errorCounts["A"] >= 5
    /\ last.errBefore = errorCounts["A"]
    /\ Own(cachedData.accounts, "A")
    /\ \E p \in 1..Len(passes) :
          /\ passes[p].phase = "store" /\ passes[p].data = NoData
          /\ "A" \in passes[p].tried

\* C6: a cache entry, once present, is never removed, and it changes only
\* when the continuation of a successful fetch of that account stores the
\* returned snapshot; entries are created in no other way.  Failures, backoff
\* skips, setCurrentAccount, health queries and registrations leave it alone.
C6_StaleDataRetained ==
    [][/\ \A a \in DOMAIN cachedData.accounts :
            /\ a \in DOMAIN cachedData.accounts'
            /\ cachedData.accounts'[a] # cachedData.accounts[a] =>
                   /\ last'.op = "store" /\ last'.name = a
                   /\ cachedData.accounts'[a] = last'.data
       /\ \A a \in (DOMAIN cachedData.accounts') \ (DOMAIN cachedData.accounts) :
            /\ last'.op = "store" /\ last'.name = a
            /\ cachedData.accounts'[a] = last'.data
      ]_vars

\* a backoff skip of an account that has an entry, after a dynamic
\* registration and a change of the selected account
C6_Witness ==
    /\ last.op = "skip" /\ last.name = "A"
    /\ Own(cachedData.accounts, "A")
    /\ Own(exchangeClients, "D")
    /\ cachedData.currentAccount = "C"

\* the fetch state and the cache entry of an account, absent ones included
Entry(m, a) == IF Own(m, a) THEN <<m[a]>> ELSE <<>>

AccountState(a) ==
    <<Entry(lastFetchTimes, a), Entry(errorCounts, a), Entry(backoffTimes, a),
      Entry(cachedData.accounts, a)>>

\* C7: a step that completes, skips or stores a fetch of one account leaves
\* the fetch state and the cache entry of every other account as they were;
\* a failure increments the error count of its own account only.
C7_AccountIsolation ==
    [][\A b \in SeqToSet(getAvailableAccounts) :
          /\ last'.name # b => AccountState(b)' = AccountState(b)
          /\ last'.op = "failure" /\ last'.name = b =>
                errorCounts'[b] = errorCounts[b] + 1
      ]_vars

\* in one pass A has succeeded and B has just failed over a stale entry
C7_Witness ==
    /\ last.op = "failure" /\ last.name = "B"
    /\ Own(cachedData.accounts, "B")
    /\ errorCounts["B"] = last.errBefore + 1
    /\ Own(cachedData.accounts, "A")
    /\ lastFetchTimes["A"] = now
    /\ errorCounts["A"] = 0
    /\ Len(passes) = 1

\* a fetch of the account succeeded within the last 60000 ms
RecentSuccess(a) == Own(succeededAt, a) /\ now - succeededAt[a] < 60000

\* C8 as stated: healthy iff a fetch succeeded within the last 60000 ms and
\* no backoff is active; no account is reported healthy and inBackoff.
C8_HealthyIffRecentAndNoBackoff ==
    last.op = "health" =>
        \A a \in DOMAIN last.report :
            /\ last.report[a].healthy <=>
                  (RecentSuccess(a) /\ ~(backoffTimes[a] > now))
            /\ ~(last.report[a].healthy /\ last.report[a].inBackoff)

\* what getHealthStatus reports in its place: every account that has a
\* client, and healthy iff a fetch of the account succeeded within the last
\* 60000 ms, whether or not a backoff is active
C8_HealthyIffRecentSuccess ==
    last.op = "health" =>
        /\ DOMAIN last.report = DOMAIN exchangeClients
        /\ \A a \in DOMAIN last.report :
              last.report[a].healthy <=> RecentSuccess(a)

\* an account reported healthy and in backoff at once
C8_Witness ==
    /\ last.op = "health"
    /\ Own(last.report, "A")
    /\ last.report["A"].healthy
    /\ last.report["A"].inBackoff

\* C9: the health record of every account that has a client is computed
\* from its fetch state at the query time: healthy = lastFetchTimestamp > 0
\* and now - lastFetchTimestamp < 60000, inBackoff = backoffUntil > now,
\* errorCount = consecutiveErrorCount.
C9_HealthRecord ==
    last.op = "health" =>
        /\ DOMAIN last.report = DOMAIN exchangeClients
        /\ \A a \in DOMAIN last.report :
              /\ last.report[a].healthy =
                    (lastFetchTimes[a] > 0 /\ now - lastFetchTimes[a] < 60000)
              /\ last.report[a].inBackoff = (backoffTimes[a] > now)
              /\ last.report[a].errorCount = errorCounts[a]
              /\ lastFetchTimes[a] = 0 => ~last.report[a].healthy
              /\ now - lastFetchTimes[a] = 60000 => ~last.report[a].healthy

\* a last success exactly 60000 ms old, reported not healthy
C9_Witness ==
    /\ last.op = "health"
    /\ Own(last.report, "A")
    /\ lastFetchTimes["A"] > 0
    /\ now - lastFetchTimes["A"] = 60000
    /\ ~last.report["A"].healthy

\* C10 as stated: setCurrentAccount with the name of an account that was
\* never registered (no client was ever stored for it) fails with the
\* invalid-account error and does not select it.
C10_UnregisteredRejected ==
    last.op = "setCurrent" /\ ~Own(exchangeClients, last.name) =>
        /\ last.result = "Invalid account"
        /\ cachedData.currentAccount # last.name

\* the content of a structure that the readers use
Content(d) == <<d.accounts, d.currentAccount, d.availableAccounts>>

\* C11: a write of a caller into a structure that getCachedData returned
\* (into its accounts map, a positions list, a summary, currentAccount or
\* availableAccounts) leaves the cache as it was, and every call of
\* getCachedData returns the content the cache has at that time.
C11_IndependentCopy ==
    [][/\ last'.op = "mutate" => cachedData' = cachedData
       /\ last'.op = "getData" =>
              \E c \in copies' :
                  /\ ~c.mutated
                  /\ c.data.lastUpdate = now'
                  /\ Content(c.data) = Content(cachedData')
      ]_vars

\* a structure taken after A's entry was stored and written into since, and
\* a structure taken afterwards that has the entry as the cache has it
C11_Witness ==
    /\ last.op = "getData"
    /\ Own(cachedData.accounts, "A")
    /\ \E c1, c2 \in copies :
          /\ c1.mutated
          /\ Own(succeededAt, "A") /\ succeededAt["A"] < c1.data.lastUpdate
          /\ ~Own(c1.data.accounts, "A")
          /\ ~c2.mutated
          /\ c2.data.lastUpdate = now
          /\ Content(c2.data) = Content(cachedData)

\* C12 as stated: an account whose client.initialize() has never returned
\* (it threw, or the combination is unsupported, or it was never asked for)
\* is not initialized, is not among the initialized accounts and has no
\* record in a health report, whatever passes have run.
C12_UninitializedAbsent ==
    \A a \in RequestNames :
        a \notin initOk =>
            /\ ~isAccountInitialized(a)
            /\ a \notin getInitializedAccounts
            /\ last.op = "health" => ~Own(last.report, a)

\* C13 as stated: a registration of a name that is registered already fails
\* and leaves the client and the fetch state of that name as they were, at
\* startup and at runtime, also when two registrations of the name overlap.
C13_DuplicateRejected ==
    [][\A n \in DOMAIN exchangeClients :
          last'.op \in {"initialized", "registered"} /\ last'.name = n =>
              /\ last'.result # "ok"
              /\ exchangeClients'[n] = exchangeClients[n]
              /\ lastFetchTimes'[n] = lastFetchTimes[n]
              /\ errorCounts'[n] = errorCounts[n]
              /\ backoffTimes'[n] = backoffTimes[n]
      ]_vars

\* the combinations the documentation lists as supported
Listed(cfg) ==
    <<cfg.exchange, cfg.accountType>> \in
        {<<"binance", "futures">>, <<"binance", "portfolioMargin">>, <<"bybit", "unified">>}

\* the clients and the fetch state
Registry == <<exchangeClients, lastFetchTimes, errorCounts, backoffTimes>>

\* C14: a registration with a combination other than binance/futures,
\* binance/portfolioMargin and bybit/unified fails before a client is
\* constructed or initialized, at startup and at runtime, and neither it nor
\* a registration whose client.initialize() fails stores a client or creates
\* fetch state.
C14_UnsupportedRejected ==
    [][/\ \A c \in RequestConfigs :
            RegisterAccount(c) /\ ~HasAccountConfig(c.name) /\ ~Listed(c) =>
                /\ last'.result = "unsupported"
                /\ clientSeq' = clientSeq /\ regs' = regs
                /\ Registry' = Registry
       /\ BootInitialize /\ ~Listed(config[boot.idx]) =>
                /\ last'.result = "unsupported"
                /\ clientSeq' = clientSeq /\ boot'.phase = "init"
                /\ Registry' = Registry
       /\ last'.op \in {"initialized", "registered"} /\ last'.result = "failed" =>
                Registry' = Registry
      ]_vars

\* D is refused for its combination after A's initialize() has thrown and C
\* was refused at startup: one client was constructed, none is stored
C14_Witness ==
    /\ last.op = "register" /\ last.name = "D" /\ last.result = "unsupported"
    /\ bootLog = <<"failed", "unsupported">>
    /\ clientSeq = 1
    /\ exchangeClients = EmptyMap /\ lastFetchTimes = EmptyMap
    /\ errorCounts = EmptyMap /\ backoffTimes = EmptyMap

\* C15: when initializeAllAccounts is over every configured account has been
\* tried, whatever failed before it, and every account whose own
\* client.initialize() returned is initialized, with lastFetchTimestamp,
\* consecutiveErrorCount and backoffUntil 0 when the first pass starts.
C15_StartupIsolation ==
    boot.phase \in {"fetch", "ready"} =>
        /\ Len(bootLog) = Len(config)
        /\ \A i \in 1..Len(config) :
              bootLog[i] = "ok" =>
                  /\ isAccountInitialized(config[i].name)
                  /\ last.op = "startFetch" =>
                        /\ lastFetchTimes[config[i].name] = 0
                        /\ errorCounts[config[i].name] = 0
                        /\ backoffTimes[config[i].name] = 0

\* the unsupported account first, then one whose initialize() throws, then
\* one that is initialized
C15_Witness ==
    /\ last.op = "startFetch"
    /\ bootLog = <<"unsupported", "failed", "ok">>
    /\ DOMAIN exchangeClients = {config[3].name}
    /\ lastFetchTimes[config[3].name] = 0
    /\ errorCounts[config[3].name] = 0
    /\ backoffTimes[config[3].name] = 0

\* C16 as stated: a pass that ends has attempted (invoked the connector of,
\* or skipped for its backoff) every account that had a client when the pass
\* started, the accounts registered through POST /accounts included.
C16_AllRegisteredAttempted ==
    [][\A p \in 1..Len(passes) :
          /\ passes[p].phase = "store"
          /\ passes[p].idx = Len(getAvailableAccounts)
          /\ passes' = RemoveAt(passes, p)
          => passes[p].atStart \subseteq passes[p].tried
      ]_vars

\* C17 as stated: while the initial pass is in progress, every account that
\* is initialized and not in backoff is eventually attempted by that pass,
\* also when the connector call of another account of the pass never returns.
C17_OthersAttempted ==
    \A a \in {"A", "B"} :
        (boot.phase = "fetch" /\ isAccountInitialized(a) /\ ~InBackoffMode(a))
            ~> (boot.phase = "fetch" /\ a \in passes[1].tried)

\* C18 as stated: at most one execution of fetchAllAccountsData is in
\* progress at any time.
C18_NoOverlap == Len(passes) <= 1

\* C20 as stated: no two calls of client.getExchangeData() of the same
\* account are pending at the same time.
C20_OneFetchPerAccount ==
    \A p, q \in 1..Len(passes) :
        /\ p # q
        /\ passes[p].phase = "await"
        /\ passes[q].phase = "await"
        => AccountAt(p) # AccountAt(q)

\* C19 as stated: whatever is thrown during a pass or in the metrics step
\* after it, the initial pass included, once startup's pass is over the
\* periodic timer is running and stays so.
C19_SchedulerKeepsRunning ==
    boot.phase \in {"init", "awaitInit", "fetch"} \/ timer.armed

\* C21: in every state a reader can observe, an account that has had a
\* successful fetch has in the cache the snapshot its most recently completed
\* successful fetch returned and as lastFetchTimestamp the time that fetch
\* completed, also when fetches of the account overlap and complete in
\* another order than they started; an account without one has no entry.
C21_CacheIsLatestSuccess ==
    ~Runnable =>
        \A a \in SeqToSet(getAvailableAccounts) :
            IF Own(fetched, a)
            THEN /\ Own(cachedData.accounts, a)
                 /\ cachedData.accounts[a] = fetched[a]
                 /\ lastFetchTimes[a] = succeededAt[a]
            ELSE /\ ~Own(cachedData.accounts, a)
                 /\ OwnOr0(lastFetchTimes, a) = 0

\* a reader's view while two fetches of A are pending, after a success that
\* returned the second snapshot and a failure that completed later
C21_Witness ==
    /\ last.op = "health"
    /\ Own(fetched, "A") /\ fetched["A"] = Snapshot(2)
    /\ cachedData.accounts["A"] = Snapshot(2)
    /\ lastFetchTimes["A"] = succeededAt["A"]
    /\ succeededAt["A"] < now
    /\ errorCounts["A"] > 0
    /\ Cardinality({p \in 1..Len(passes) : passes[p].phase = "await"}) >= 2

\* C22: the initial pass starts when every configured account has been tried,
\* the timer is armed in the step that ends the initial pass, after its last
\* account, and is due 40000 ms later; a periodic pass starts only when the
\* timer is due, so none starts while the initial pass runs and the first one
\* starts 40000 ms after the timer was armed.
C22_InitialPassThenTimer ==
    [][/\ boot.phase = "fetch" =>
              /\ ~timer.armed
              /\ Len(bootLog) = Len(config)
              /\ Len(passes) = 1 /\ passes[1].kind = "initial"
       /\ ~timer.armed /\ timer'.armed =>
              /\ boot.phase = "fetch" /\ boot'.phase = "ready"
              /\ \/ passes[1].phase = "store" /\ passes[1].idx = Len(getAvailableAccounts)
                 \/ passes[1].phase = "end" /\ Len(getAvailableAccounts) = 0
              /\ passes' = <<>>
              /\ timer'.next = now + 40000
       /\ timer.armed /\ timer'.next # timer.next =>
              /\ last'.op = "timer"
              /\ timer'.next = timer.next + 40000
       /\ Len(passes') > Len(passes) =>
              IF passes'[Len(passes')].kind = "initial"
              THEN boot.phase = "init" /\ passes = <<>> /\ ~timer.armed
              ELSE /\ last'.op = "timer"
                   /\ timer.armed /\ now = timer.next
                   /\ boot.phase = "ready"
                   /\ \A p \in 1..Len(passes) : passes[p].kind = "periodic"
      ]_vars

\* the initial pass took 10000 ms; the first periodic pass starts 40000 ms
\* after it ended
C22_Witness ==
    /\ last.op = "timer"
    /\ Own(succeededAt, "A") /\ succeededAt["A"] = StartTime + 10000
    /\ now = StartTime + 50000
    /\ Len(passes) = 1 /\ passes[1].kind = "periodic" /\ passes[1].phase = "call"
    /\ timer.next = now + 40000

\* C23 as stated: the step in which a client.initialize() returns stores that client
\* under the account's name and sets the account's lastFetchTimestamp,
\* consecutiveErrorCount and backoffUntil to 0; an account is initialized
\* exactly when a client.initialize() for its name has returned, so not while
\* its first initialization is still waiting.
C23_RegistrationCreatesState ==
    [][/\ \A n \in RequestNames :
            /\ isAccountInitialized(n)' <=> n \in initOk'
            /\ InitializationPending(n)' /\ n \notin initOk' => ~isAccountInitialized(n)'
            /\ last'.op \in {"initialized", "registered"} /\ last'.name = n
                  /\ last'.result = "ok" =>
                  /\ n \in initOk'
                  /\ Own(exchangeClients', n)
                  /\ lastFetchTimes'[n] = 0
                  /\ errorCounts'[n] = 0
                  /\ backoffTimes'[n] = 0
       /\ BootInitialized(TRUE) =>
            exchangeClients'[config[boot.idx].name] = boot.client
       /\ \A r \in 1..Len(regs) :
            RegisterInitialized(r, TRUE) =>
                exchangeClients'[regs[r].cfg.name] = regs[r].client
      ]_vars

\* C24: a health query changes no account's lastFetchTimestamp,
\* consecutiveErrorCount or backoffUntil, nor the cache, the selected account
\* or the set of accounts that have a client, whatever else is in progress.
C24_HealthIsPureRead ==
    [][last'.op = "health" =>
          /\ lastFetchTimes' = lastFetchTimes
          /\ errorCounts' = errorCounts
          /\ backoffTimes' = backoffTimes
          /\ cachedData' = cachedData
          /\ exchangeClients' = exchangeClients
          /\ passes' = passes /\ timer' = timer /\ regs' = regs
      ]_vars

\* a query while a fetch of A and a registration are pending, D is
\* registered, A has failed before and C is selected
C24_Witness ==
    /\ last.op = "health"
    /\ DOMAIN last.report = {"A", "D"}
    /\ last.report["A"].errorCount > 0
    /\ cachedData.currentAccount = "C"
    /\ \E p \in 1..Len(passes) : passes[p].phase = "await"
    /\ Len(regs) > 0

\* C25: when a connector call throws, fetchAccountData increments the
\* account's consecutiveErrorCount by exactly one and returns no data, and
\* the continuation of the pass writes nothing to the cache and goes on with
\* the next account of the same pass, or ends the pass after the last one.
C25_FailureContained ==
    [][\A p \in 1..Len(passes) :
          /\ FetchFailed(p) =>
                /\ errorCounts'[AccountAt(p)] = OwnOr0(errorCounts, AccountAt(p)) + 1
                /\ last'.result = "null"
                /\ passes' = SetAt(passes, p, [passes[p] EXCEPT !.phase = "store",
                                                                !.data = NoData])
          /\ (passes[p].phase = "store" /\ last.op = "failure") =>
                /\ PassContinue(p)
                /\ cachedData' = cachedData
                /\ last'.result \in {"next", "passEnd"}
                /\ IF passes[p].idx < Len(getAvailableAccounts)
                   THEN passes' = SetAt(passes, p, [passes[p] EXCEPT !.idx = @ + 1,
                                                                   !.phase = "call"])
                   ELSE passes' = RemoveAt(passes, p)
      ]_vars

\* in the periodic pass A's call has thrown for the second time and the
\* pass has gone on to invoke B
C25_Witness ==
    /\ last.op = "invoke" /\ last.name = "B"
    /\ Own(errorCounts, "A") /\ errorCounts["A"] = 2 /\ streak["A"] = 2
    /\ Len(passes) = 1 /\ passes[1].kind = "periodic"
    /\ "A" \in passes[1].tried

\* the fetch state of an account
FetchState(n) == <<lastFetchTimes[n], errorCounts[n], backoffTimes[n]>>

\* C26: the lastFetchTimestamp, consecutiveErrorCount and backoffUntil of an
\* account that has a client change only in the step that completes a fetch
\* of that account, with a success or a failure; no other step changes or
\* removes them, and the account keeps its client: not a registration of any
\* name, setCurrentAccount, a cache read or a health query.
C26_OnlyFetchChangesState ==
    [][\A n \in DOMAIN exchangeClients :
          /\ Own(exchangeClients', n)
          /\ Own(lastFetchTimes', n) /\ Own(errorCounts', n) /\ Own(backoffTimes', n)
          /\ FetchState(n)' # FetchState(n) =>
                last'.op \in {"success", "failure"} /\ last'.name = n
      ]_vars

\* a second registration of D completes while A has failed once and C is
\* selected: A's state is as it was
C26_Witness ==
    /\ last.op = "registered" /\ last.name = "D" /\ last.result = "ok"
    /\ exchangeClients["D"] = 3
    /\ Own(errorCounts, "A") /\ errorCounts["A"] = 1
    /\ cachedData.currentAccount = "C"

\* C27 as stated: for every account that has fetch state,
\* consecutiveErrorCount is a number >= 0,
\* and backoffUntil # 0 only if consecutiveErrorCount >= 5, also while
\* several fetches of the account are pending and complete in any order.
C27_BackoffOnlyOverThreshold ==
    \A a \in DOMAIN errorCounts :
        /\ IsNumber(errorCounts[a])
        /\ errorCounts[a] >= 0
        /\ Own(backoffTimes, a)
        /\ backoffTimes[a] # 0 => errorCounts[a] >= 5

\* C28: when every connector call is answered less than 10000 ms after its
\* pass started and the passes start 40000 ms apart, the pass that finds the
\* account with 5 consecutive failures finds its backoff expired and invokes
\* the connector again, and a pass skips the account only when it has failed
\* at least 6 times in a row.
C28_FirstSkipAfterSixth ==
    /\ last.op \in {"skip", "invoke"} /\ errorCounts[last.name] = 5 =>
          /\ last.op = "invoke"
          /\ backoffTimes[last.name] # 0
          /\ backoffTimes[last.name] <= now
    /\ last.op = "skip" =>
          /\ last.errBefore >= 6
          /\ streak[last.name] >= 6

\* the first skip: the pass that starts 40000 ms after the pass of the sixth
\* failure in a row, which completed 5000 ms after its pass had started
C28_Witness ==
    /\ last.op = "skip" /\ last.name = "A"
    /\ last.errBefore = 6 /\ streak["A"] = 6
    /\ ~Own(succeededAt, "A")
    /\ backoffTimes["A"] = now + 25000

\* C29: whenever a request can be served, every account whose
\* lastFetchTimestamp is above 0 has an entry in the cache; so has every
\* account a health report calls healthy, and GET /data returns it.
C29_FetchedHasEntry ==
    /\ ~Runnable =>
          \A a \in DOMAIN lastFetchTimes :
              lastFetchTimes[a] > 0 => Own(cachedData.accounts, a)
    /\ last.op = "health" =>
          \A a \in DOMAIN last.report :
              last.report[a].healthy => Own(cachedData.accounts, a)
    /\ last.op = "data" =>
          \A a \in DOMAIN lastFetchTimes :
              lastFetchTimes[a] > 0 => Own(last.report, a)

\* GET /data between two passes: A, fetched once, is in the answer; D,
\* registered and never fetched, is not
C29_Witness ==
    /\ last.op = "data"
    /\ Own(lastFetchTimes, "A") /\ lastFetchTimes["A"] > 0
    /\ Own(last.report, "A") /\ last.report["A"] \in Snapshots
    /\ Own(lastFetchTimes, "D") /\ lastFetchTimes["D"] = 0
    /\ ~Own(last.report, "D")
    /\ passes = <<>> /\ timer.armed

\* C30: with a clock that advances, a timer that fires and connector calls
\* that return, an account in backoff whose expiry lies at least one fetch
\* interval before the end of the run has its connector invoked again; and
\* a success, whatever the count and the backoff were, leaves count and
\* backoff 0 and the account healthy and not in backoff in a health report
\* taken then.
C30_BackoffIsTemporary ==
    /\ \A a \in {"A", "B"} :
          (InBackoffMode(a) /\ backoffTimes[a] + FETCH_INTERVAL <= env.limit)
              ~> (last.op = "invoke" /\ last.name = a)
    /\ [](last.op = "success" =>
             /\ errorCounts[last.name] = 0
             /\ backoffTimes[last.name] = 0
             /\ getHealthStatus[last.name].healthy
             /\ ~getHealthStatus[last.name].inBackoff)

\* a success of B in the attempt that followed a skipped pass, after six
\* failures in a row, while A is in backoff
C30_Witness ==
    /\ last.op = "success" /\ last.name = "B"
    /\ last.errBefore = 6
    /\ last.backoffBefore > 0 /\ last.backoffBefore <= now
    /\ errorCounts["B"] = 0 /\ backoffTimes["B"] = 0
    /\ getHealthStatus["B"].healthy
    /\ InBackoffMode("A")

\* C31 as stated: a configured account whose client.initialize() has not returned at
\* startup stays without client, fetch state and cache entry once startup's
\* registrations are over: every pass that reaches it returns no data at
\* once, invokes no connector and changes nothing, no request initializes
\* it, and no health report has a record of it.
C31_InitializationNotRetried ==
    [][\A n \in SeqToSet(getAvailableAccounts) :
          n \notin initOk /\ boot.phase \in {"fetch", "ready"} =>
              /\ n \notin initOk'
              /\ ~isAccountInitialized(n)'
              /\ ~Own(lastFetchTimes', n) /\ ~Own(errorCounts', n)
              /\ ~Own(backoffTimes', n) /\ ~Own(cachedData'.accounts, n)
              /\ last'.op = "health" => ~Own(last'.report, n)
              /\ last'.name = n =>
                    last'.op \in {"noClient", "continue", "setCurrent", "register"}
              /\ \A p \in 1..Len(passes) :
                    passes[p].phase = "call" /\ AccountAt(p) = n =>
                        /\ last'.op = "noClient" /\ last'.result = "null"
                        /\ passes' = SetAt(passes, p, [passes[p] EXCEPT
                                                          !.phase = "store",
                                                          !.data = NoData])
                        /\ Registry' = Registry /\ cachedData' = cachedData
      ]_vars

\* the names startDataFetcher has captured: none while initializeAllAccounts
\* runs, the configured names from then on
Captured ==
    IF boot.phase \in {"init", "awaitInit"} THEN {} ELSE SeqToSet(getAvailableAccounts)

\* C32: setCurrentAccount accepts a name exactly when it is one of the
\* configured names and startDataFetcher has captured them, which it does
\* once, when initializeAllAccounts is over: every name is rejected before,
\* a configured name is accepted afterwards whether or not it has a client,
\* and a name registered through POST /accounts is rejected.  The selected
\* account is empty before the capture, the first configured name at the
\* capture and always empty or a configured name.
C32_ConfiguredNamesSelectable ==
    /\ SeqToSet(cachedData.availableAccounts) = Captured
    /\ last.op = "setCurrent" =>
          /\ last.result = "ok" <=> last.name \in Captured
          /\ last.result # "ok" <=> last.result = "Invalid account"
          /\ last.result = "ok" => cachedData.currentAccount = last.name
          /\ last.result # "ok" => cachedData.currentAccount # last.name
    /\ cachedData.currentAccount \in {""} \cup SeqToSet(getAvailableAccounts)
    /\ Captured = {} => cachedData.currentAccount = ""
    /\ last.op = "startFetch" /\ Len(config) > 0 =>
          cachedData.currentAccount = config[1].name

\* D, registered through POST /accounts, is refused while C, whose
\* combination is unsupported, is selected and A's initialize() has thrown
C32_Witness ==
    /\ last.op = "setCurrent" /\ last.name = "D"
    /\ last.result = "Invalid account"
    /\ Own(exchangeClients, "D")
    /\ cachedData.currentAccount = "C"
    /\ bootLog = <<"failed", "unsupported">>
    /\ boot.phase = "ready"

====
